---------------------------- MODULE Spec2Model ----------------------------
(***************************************************************************)
(* A model of src/app.py, the DND War Dashboard: a Streamlit script that   *)
(* loads a workbook, extracts tables from its sheets, writes edits back    *)
(* and serialises the workbook for download.                               *)
(*                                                                         *)
(* Python strings are sequences of one-character strings, so that strip,   *)
(* lower, str() and the f-strings of the code are computed, not assumed.   *)
(* A cell value is a record [t, v]: t is the Python type ("none", "str",   *)
(* "num") and v the characters of its str() form.                          *)
(***************************************************************************)
EXTENDS Integers, Sequences, FiniteSets, TLC

VARIABLES
    cols,       \* make_unique_columns: the header list passed in
    unique,     \* make_unique_columns: the list returned
    again,      \* make_unique_columns applied to its own result
    cpc,        \* position of the normaliser harness: "in", "once", "twice"
    ws,         \* the worksheet handed to the helpers
    op,         \* the helper last called on ws
    ret,        \* what that helper returned
    edited,     \* the table the Territories data editor returned
    uploaded,   \* the file in the uploader
    wb,         \* the workbook of the current run
    pc,         \* where the run is: a tab of the script, or at rest
    edited_flag,\* st.session_state.edited_flag
    out,        \* the bytes the download button offers
    warnings,   \* the warnings the run has shown
    widgets,    \* the values of the widgets the Events tab reads
    appended,   \* history: how many event rows were appended since the upload
    applied     \* history: Territories as the latest Apply since the upload left it

colvars == <<cols, unique, again, cpc>>
sheetvars == <<ws, op, ret, edited>>
appvars == <<uploaded, wb, pc, edited_flag, out, warnings, widgets,
             appended, applied>>
vars == <<cols, unique, again, cpc, ws, op, ret, edited,
          uploaded, wb, pc, edited_flag, out, warnings, widgets,
          appended, applied>>

-----------------------------------------------------------------------------
(* Python values and strings                                               *)

None == [t |-> "none", v |-> <<>>]
Str(s) == [t |-> "str", v |-> s]

DigitChars == <<"0", "1", "2", "3", "4", "5", "6", "7", "8", "9">>

\* str(n) for a non-negative int
RECURSIVE Digits(_)
Digits(n) ==
    IF n < 10 THEN <<DigitChars[n + 1]>>
    ELSE Digits(n \div 10) \o <<DigitChars[(n % 10) + 1]>>

Num(n) == [t |-> "num", v |-> Digits(n)]

UpperChars == <<"A", "B", "C", "D", "E", "F", "G", "H", "I", "J", "K", "L", "M",
                "N", "O", "P", "Q", "R", "S", "T", "U", "V", "W", "X", "Y", "Z">>
LowerChars == <<"a", "b", "c", "d", "e", "f", "g", "h", "i", "j", "k", "l", "m",
                "n", "o", "p", "q", "r", "s", "t", "u", "v", "w", "x", "y", "z">>

IsUpperChar(ch) == \E i \in 1..Len(UpperChars) : UpperChars[i] = ch
IsLowerChar(ch) == \E i \in 1..Len(LowerChars) : LowerChars[i] = ch
IsSpaceChar(ch) == ch \in {" ", "\t", "\n"}

LowerChar(ch) ==
    IF IsUpperChar(ch)
    THEN LowerChars[CHOOSE i \in 1..Len(UpperChars) : UpperChars[i] = ch]
    ELSE ch

\* s.lower()
Lower(s) == [i \in 1..Len(s) |-> LowerChar(s[i])]

\* s.strip()
Strip(s) ==
    LET keep == {i \in 1..Len(s) : ~IsSpaceChar(s[i])}
    IN  IF keep = {} THEN <<>>
        ELSE LET lo == CHOOSE i \in keep : \A j \in keep : i <= j
                 hi == CHOOSE i \in keep : \A j \in keep : j <= i
             IN  SubSeq(s, lo, hi)

\* str(v)
PyStr(c) == IF c.t = "none" THEN <<"N", "o", "n", "e">> ELSE c.v

\* bool(v): None, "", and 0 are falsy
Truthy(c) ==
    CASE c.t = "none" -> FALSE
      [] c.t = "str"  -> c.v # <<>>
      [] OTHER        -> c.v # <<"0">>

\* the strings "A", "A (1)", "B", "C", "X" and "Y" of the bounded inputs
SA == <<"A">>
SA1 == <<"A", " ", "(", "1", ")">>
SB == <<"B">>
SC == <<"C">>
SX == <<"X">>
SY == <<"Y">>

-----------------------------------------------------------------------------
(* make_unique_columns, src/app.py 88-105                                  *)

\* line 94: the stripped str() of a header, or None when absent or blank
norm(c) ==
    IF c # None /\ Strip(PyStr(c)) # <<>> THEN Str(Strip(PyStr(c))) ELSE None

\* the placeholder numbered from 0: f"Col{i}"
ColPlaceholderFromZero(i1) == <<"C", "o", "l">> \o Digits(i1 - 1)

\* f"Col{i+1}", with i1 = i+1
ColPlaceholder(i1) == <<"C", "o", "l">> \o Digits(i1)

\* line 95
filled(cs) ==
    [i \in 1..Len(cs) |->
        IF norm(cs[i]) # None THEN norm(cs[i]).v ELSE ColPlaceholder(i)]

\* f"{c} ({n})"
Suffixed(c, n) == c \o <<" ", "(">> \o Digits(n) \o <<")">>

\* lines 96-104: the loop over filled, carrying the dict seen and the list
\* unique; seen is a function from the names met so far to their counters
RECURSIVE UniqueLoop(_, _, _, _)
UniqueLoop(f, i, seen, acc) ==
    IF i > Len(f) THEN acc
    ELSE LET c == f[i]
         IN  IF c \notin DOMAIN seen
             THEN UniqueLoop(f, i + 1,
                             [k \in DOMAIN seen \cup {c} |->
                                 IF k = c THEN 0 ELSE seen[k]],
                             Append(acc, c))
             ELSE UniqueLoop(f, i + 1,
                             [seen EXCEPT ![c] = seen[c] + 1],
                             Append(acc, Suffixed(c, seen[c] + 1)))

make_unique_columns(cs) == UniqueLoop(filled(cs), 1, <<>>, <<>>)

-----------------------------------------------------------------------------
(* Worksheets.  A sheet is its reported extent and the values of the cells *)
(* inside it; a cell the file does not hold reads as None.                 *)

\* what get_ws returns for a missing sheet (line 76)
NoneWs == [max_row |-> 0, max_column |-> 0, cells |-> <<>>]

\* ws.cell(row=r, column=c).value
CellValue(w, r, c) ==
    IF r \in 1..w.max_row /\ c \in 1..w.max_column THEN w.cells[r][c] ELSE None

\* [ws.cell(row=r, column=c).value for c in range(1, ws.max_column + 1)]
RowValues(w, r) == [c \in 1..w.max_column |-> CellValue(w, r, c)]

\* all(v is None for v in row)
AllNone(row) == \A c \in 1..Len(row) : row[c] = None

\* any(row)
AnyTruthy(row) == \E c \in 1..Len(row) : Truthy(row[c])

RegionName == <<"R", "e", "g", "i", "o", "n", "N", "a", "m", "e">>

\* the return value None of find_header_row; rows are numbered from 1
NoRow == 0

\* line 84
HeaderMatchesNoStrip(v, key) == v.t = "str" /\ Lower(v.v) = Lower(key)
HeaderMatches(v, key) == v.t = "str" /\ Lower(Strip(v.v)) = Lower(key)

\* lines 82-86: the scan from row r
RECURSIVE FindLoop(_, _, _)
FindLoop(w, key, r) ==
    IF r > w.max_row THEN NoRow
    ELSE IF HeaderMatches(CellValue(w, r, 1), key) THEN r
    ELSE FindLoop(w, key, r + 1)

\* lines 78-86
find_header_row(w, key) == IF w = NoneWs THEN NoRow ELSE FindLoop(w, key, 1)

NoErr == [text |-> "", key |-> <<>>]
WorksheetNotFound == [text |-> "Worksheet not found.", key |-> <<>>]
\* the f-string of line 115, with the sentinel it is formatted with
HeaderNotFound(key) ==
    [text |-> "Header row not found (looking for '{header_key}' in column A).",
     key |-> key]

\* a helper's (df, err): df is None exactly when isdf is false
NoDf(e) == [isdf |-> FALSE, columns |-> <<>>, rows |-> <<>>, err |-> e]
DataFrame(columns, rows) ==
    [isdf |-> TRUE, columns |-> columns, rows |-> rows, err |-> NoErr]

\* lines 120-124 with break replaced by continue
RECURSIVE ByKeyRowsSkip(_, _, _)
ByKeyRowsSkip(w, r, rows) ==
    IF r > w.max_row THEN rows
    ELSE IF AllNone(RowValues(w, r)) THEN ByKeyRowsSkip(w, r + 1, rows)
    ELSE ByKeyRowsSkip(w, r + 1, Append(rows, RowValues(w, r)))

\* lines 120-124: the loop from row r, leaving at the first all-None row
RECURSIVE ByKeyRows(_, _, _)
ByKeyRows(w, r, rows) ==
    IF r > w.max_row THEN rows
    ELSE IF AllNone(RowValues(w, r)) THEN rows
    ELSE ByKeyRows(w, r + 1, Append(rows, RowValues(w, r)))

\* lines 107-127 without the test of line 114: the header is read at the
\* row the scan ended on
sheet_to_dataframe_by_key_unchecked(w, header_key) ==
    IF w = NoneWs THEN NoDf(WorksheetNotFound)
    ELSE LET h == find_header_row(w, header_key)
         IN  DataFrame(make_unique_columns(RowValues(w, h)),
                       ByKeyRows(w, h + 1, <<>>))

\* lines 107-127
sheet_to_dataframe_by_key(w, header_key) ==
    IF w = NoneWs THEN NoDf(WorksheetNotFound)
    ELSE LET h == find_header_row(w, header_key)
         IN  IF h = NoRow THEN NoDf(HeaderNotFound(header_key))
             ELSE DataFrame(make_unique_columns(RowValues(w, h)),
                            ByKeyRows(w, h + 1, <<>>))

\* lines 138-142: the loop from row r, passing over rows with no truthy cell
RECURSIVE FirstRowRows(_, _, _)
FirstRowRows(w, r, rows) ==
    IF r > w.max_row THEN rows
    ELSE IF ~AnyTruthy(RowValues(w, r)) THEN FirstRowRows(w, r + 1, rows)
    ELSE FirstRowRows(w, r + 1, Append(rows, RowValues(w, r)))

\* lines 129-144
sheet_to_dataframe_first_row(w) ==
    IF w = NoneWs THEN NoDf(WorksheetNotFound)
    ELSE DataFrame(make_unique_columns(RowValues(w, 1)), FirstRowRows(w, 2, <<>>))

-----------------------------------------------------------------------------
(* The Territories tab, src/app.py 207-280                                 *)

Max2(a, b) == IF a >= b THEN a ELSE b

\* ws.cell(row=r, column=c).value = v: the cell is created when the sheet
\* does not hold it yet, and the reported extent follows
SetCell(w, r, c, v) ==
    LET nr == Max2(w.max_row, r)
        nc == Max2(w.max_column, c)
    IN  [max_row |-> nr, max_column |-> nc,
         cells |-> [i \in 1..nr |-> [j \in 1..nc |->
                       IF i = r /\ j = c THEN v ELSE CellValue(w, i, j)]]]

\* lines 265-271: the scan from row r that builds name_to_row, a function
\* from str(RegionName) to the last row carrying it
RECURSIVE NameToRow(_, _, _)
NameToRow(w, r, m) ==
    IF r > w.max_row THEN m
    ELSE IF AllNone(RowValues(w, r)) THEN m
    ELSE LET nm == CellValue(w, r, 1)
         IN  IF Truthy(nm)
             THEN NameToRow(w, r + 1,
                            [k \in DOMAIN m \cup {PyStr(nm)} |->
                                IF k = PyStr(nm) THEN r ELSE m[k]])
             ELSE NameToRow(w, r + 1, m)

\* row.get("RegionName"): the field of the column of that name, else None
RecordGet(columns, rec, name) ==
    LET at == {i \in 1..Len(columns) : columns[i] = name}
    IN  IF at = {} THEN None
        ELSE rec[CHOOSE i \in at : \A j \in at : i <= j]

\* lines 277-278: the record's fields written to row r from column c on
RECURSIVE WriteRecord(_, _, _, _)
WriteRecord(w, r, rec, c) ==
    IF c > Len(rec) THEN w
    ELSE WriteRecord(SetCell(w, r, c, rec[c]), r, rec, c + 1)

\* lines 273-278 for a writer that appends the records it cannot match
RECURSIVE WriteEditedInserting(_, _, _, _, _)
WriteEditedInserting(w, columns, name_to_row, e, i) ==
    IF i > Len(e) THEN w
    ELSE LET nm == PyStr(RecordGet(columns, e[i], RegionName))
         IN  IF nm \in DOMAIN name_to_row
             THEN WriteEditedInserting(WriteRecord(w, name_to_row[nm], e[i], 1),
                                       columns, name_to_row, e, i + 1)
             ELSE WriteEditedInserting(WriteRecord(w, w.max_row + 1, e[i], 1),
                                       columns, name_to_row, e, i + 1)

\* lines 273-278: the loop over the edited records from record i
RECURSIVE WriteEdited(_, _, _, _, _)
WriteEdited(w, columns, name_to_row, e, i) ==
    IF i > Len(e) THEN w
    ELSE LET nm == PyStr(RecordGet(columns, e[i], RegionName))
         IN  IF nm \in DOMAIN name_to_row
             THEN WriteEdited(WriteRecord(w, name_to_row[nm], e[i], 1),
                              columns, name_to_row, e, i + 1)
             ELSE WriteEdited(w, columns, name_to_row, e, i + 1)

\* lines 258-278: "Apply changes to workbook" on the sheet w, the edited
\* table having the columns the extractor gave and the records e
ApplyChanges(w, columns, e) ==
    LET h2 == find_header_row(w, RegionName)
        start_row == IF h2 # NoRow THEN h2 + 1 ELSE 2
    IN  WriteEdited(w, columns, NameToRow(w, start_row, <<>>), e, 1)

\* lines 208-214: the warning of the section, "" when it shows the table
TerrWarning(w) ==
    IF w = NoneWs THEN "Sheet 'Territories' not found."
    ELSE sheet_to_dataframe_by_key(w, RegionName).err.text

-----------------------------------------------------------------------------
(* The helpers on bounded sheets                                           *)

MaxRows == 4

\* column A: absent, the sentinel, the sentinel padded and in another case,
\* a region name, the number 0; the other columns: absent or a value
KeyVals ==
    { None, Str(RegionName),
      Str(<<" ", "r", "e", "g", "i", "o", "n", "n", "a", "m", "e", " ">>),
      Str(SA), Num(0) }
DataVals == { None, Str(SX) }
ColumnVals == <<KeyVals, DataVals>>

GridRows == { row \in [1..Len(ColumnVals) -> KeyVals \cup DataVals] :
                \A c \in 1..Len(ColumnVals) : row[c] \in ColumnVals[c] }

Sheet(cells) ==
    [max_row |-> Len(cells), max_column |-> Len(ColumnVals), cells |-> cells]

NoRet == [h |-> NoRow, res |-> NoDf(NoErr)]

SheetIdle ==
    /\ ws = NoneWs
    /\ op = "none"
    /\ ret = NoRet
    /\ edited = <<>>

AppIdle ==
    /\ uploaded = [state |-> "none", sheets |-> <<>>, vba |-> ""]
    /\ wb = [sheets |-> <<>>, vba |-> ""]
    /\ pc = "start"
    /\ edited_flag = FALSE
    /\ out = [state |-> "none", sheets |-> <<>>, vba |-> ""]
    /\ warnings = {}
    /\ widgets = <<>>
    /\ appended = 0
    /\ applied = NoneWs

ColsIdle ==
    /\ cols = <<>>
    /\ unique = <<>>
    /\ again = <<>>
    /\ cpc = "in"

InitSheet ==
    /\ \/ ws = NoneWs
       \/ \E n \in 1..MaxRows : \E cells \in [1..n -> GridRows] : ws = Sheet(cells)
    /\ op = "none"
    /\ ret = NoRet
    /\ edited = <<>>
    /\ ColsIdle
    /\ AppIdle

CallFindHeader ==
    /\ op = "none"
    /\ op' = "find_header_row"
    /\ ret' = [NoRet EXCEPT !.h = find_header_row(ws, RegionName)]
    /\ UNCHANGED <<ws, edited>>
    /\ UNCHANGED <<colvars, appvars>>

CallByKey ==
    /\ op = "none"
    /\ op' = "sheet_to_dataframe_by_key"
    /\ ret' = [NoRet EXCEPT !.res = sheet_to_dataframe_by_key(ws, RegionName)]
    /\ UNCHANGED <<ws, edited>>
    /\ UNCHANGED <<colvars, appvars>>

CallFirstRow ==
    /\ op = "none"
    /\ op' = "sheet_to_dataframe_first_row"
    /\ ret' = [NoRet EXCEPT !.res = sheet_to_dataframe_first_row(ws)]
    /\ UNCHANGED <<ws, edited>>
    /\ UNCHANGED <<colvars, appvars>>

NextSheet == CallFindHeader \/ CallByKey \/ CallFirstRow

SpecSheet == InitSheet /\ [][NextSheet]_vars

-----------------------------------------------------------------------------
(* The Territories tab on bounded sheets and bounded edited tables.  The   *)
(* cells are strings or absent, which pandas hands back as they are.       *)

MaxTerrRows == 3
MaxEdited == 2

\* the rows of a Territories sheet: blank, the header, regions A (with and
\* without its second field) and B, and a row with no region name
TerrRows ==
    { <<None, None>>, <<Str(RegionName), Str(SX)>>, <<Str(SA), Str(SX)>>,
      <<Str(SA), None>>, <<Str(SB), Str(SX)>>, <<None, Str(SX)>> }

\* what the user can leave in a record of the editor: the key of a row, a
\* key no row has, and a changed or emptied second field
EditedRecords ==
    { <<Str(SA), Str(SY)>>, <<Str(SA), None>>, <<Str(SC), Str(SY)>>,
      <<Str(SC), None>> }

InitTerr ==
    /\ \/ ws = NoneWs
       \/ \E n \in 1..MaxTerrRows : \E cells \in [1..n -> TerrRows] : ws = Sheet(cells)
    /\ op = "none"
    /\ ret = NoRet
    /\ edited = <<>>
    /\ ColsIdle
    /\ AppIdle

\* lines 209-214: the sheet or its header is missing, the section warns
TerrWarn ==
    /\ op = "none"
    /\ TerrWarning(ws) # ""
    /\ op' = "warning"
    /\ ret' = [NoRet EXCEPT !.res = sheet_to_dataframe_by_key(ws, RegionName)]
    /\ UNCHANGED <<ws, edited>>
    /\ UNCHANGED <<colvars, appvars>>

\* lines 236-243, and 245-257 without a click on the button: nothing written
TerrShow ==
    /\ op = "none"
    /\ TerrWarning(ws) = ""
    /\ op' = "show"
    /\ ret' = [NoRet EXCEPT !.res = sheet_to_dataframe_by_key(ws, RegionName)]
    /\ UNCHANGED <<ws, edited>>
    /\ UNCHANGED <<colvars, appvars>>

\* lines 245-280 with editing enabled and the button clicked
TerrApply ==
    /\ op = "none"
    /\ TerrWarning(ws) = ""
    /\ \E n \in 0..MaxEdited : \E e \in [1..n -> EditedRecords] :
          LET df == sheet_to_dataframe_by_key(ws, RegionName)
          IN  /\ edited' = e
              /\ ret' = [NoRet EXCEPT !.res = df]
              /\ ws' = ApplyChanges(ws, df.columns, e)
    /\ op' = "apply"
    /\ UNCHANGED <<colvars, appvars>>

NextTerr == TerrWarn \/ TerrShow \/ TerrApply

SpecTerr == InitTerr /\ [][NextTerr]_vars

-----------------------------------------------------------------------------
(* The normaliser on bounded header lists                                  *)

MaxCols == 4

\* header cells: absent, blank, padded, duplicated, a name that looks like a
\* deduplication suffix, a name that looks like a placeholder, a number
HeaderVals ==
    { None, Str(<<>>), Str(<<" ">>), Str(SA), Str(<<" ", "A">>), Str(SA1),
      Str(<<"C", "o", "l", "2">>), Num(1) }

InitCols ==
    /\ \E n \in 0..MaxCols : cols \in [1..n -> HeaderVals]
    /\ unique = <<>>
    /\ again = <<>>
    /\ cpc = "in"
    /\ SheetIdle
    /\ AppIdle

Normalize ==
    /\ cpc = "in"
    /\ unique' = make_unique_columns(cols)
    /\ cpc' = "once"
    /\ UNCHANGED <<cols, again>>
    /\ UNCHANGED <<sheetvars, appvars>>

\* the result, a list of strings, fed back as a header list
Renormalize ==
    /\ cpc = "once"
    /\ again' = make_unique_columns([i \in 1..Len(unique) |-> Str(unique[i])])
    /\ cpc' = "twice"
    /\ UNCHANGED <<cols, unique>>
    /\ UNCHANGED <<sheetvars, appvars>>

NextCols == Normalize \/ Renormalize

SpecCols == InitCols /\ [][NextCols]_vars

-----------------------------------------------------------------------------
(* The script run, src/app.py 46-520.  Streamlit runs the whole script on  *)
(* every interaction; st.session_state alone outlives a run.               *)

SReconLevel == <<"R", "e", "c", "o", "n", "L", "e", "v", "e", "l">>
SAccuracy == <<"A", "c", "c", "u", "r", "a", "c", "y">>
SName == <<"N", "a", "m", "e">>
SEventType == <<"E", "v", "e", "n", "t", "T", "y", "p", "e">>
SValue == <<"V", "a", "l", "u", "e">>
SNotes == <<"N", "o", "t", "e", "s">>
SGlobal == <<"G", "L", "O", "B", "A", "L">>
SAddDaysNote == <<"A", "D", "D", "_", "D", "A", "Y", "S", "_", "N", "O", "T", "E">>
SRollPrefix == <<"R", "O", "L", "L", "_">>
SWeaponTier == <<"w", "e", "a", "p", "o", "n", " ", "t", "i", "e", "r">>
SMilitiaTier == <<"m", "i", "l", "i", "t", "i", "a", " ", "t", "i", "e", "r">>

\* float(n) for a whole n: its str() ends in ".0"
Float(n) == [t |-> "num", v |-> Digits(n) \o <<".", "0">>]

UpperChar(ch) ==
    IF IsLowerChar(ch)
    THEN UpperChars[CHOOSE i \in 1..Len(LowerChars) : LowerChars[i] = ch]
    ELSE ch

\* s.upper()
Upper(s) == [i \in 1..Len(s) |-> UpperChar(s[i])]

\* s.isupper(): a cased character, and no lower-case one
IsUpper(s) ==
    /\ \E i \in 1..Len(s) : IsUpperChar(s[i])
    /\ \A i \in 1..Len(s) : ~IsLowerChar(s[i])

\* s.startswith(p)
StartsWith(s, p) == Len(s) >= Len(p) /\ SubSeq(s, 1, Len(p)) = p

\* c in s, for a character c
HasChar(s, c) == \E i \in 1..Len(s) : s[i] = c

\* lines 71-76: the sheet of that name, None when the workbook has none
get_ws(book, name) ==
    IF name \in DOMAIN book.sheets THEN book.sheets[name] ELSE NoneWs

\* a sheet that holds no cell reports max_row = max_column = 1
EmptySheet == [max_row |-> 1, max_column |-> 1, cells |-> << <<None>> >>]

\* the cells a saved file holds of a sheet: those that carry a value
FileCells(w) ==
    LET held == {rc \in (1..w.max_row) \X (1..w.max_column) :
                    w.cells[rc[1]][rc[2]] # None}
    IN  [rc \in held |-> w.cells[rc[1]][rc[2]]]

\* line 502, wb.save(out): every sheet's held cells and the VBA archive
wb_save(book) ==
    [state |-> "ok",
     sheets |-> [n \in DOMAIN book.sheets |-> FileCells(book.sheets[n])],
     vba |-> book.vba]

\* a loaded sheet: the extent is the bounding box of the cells of the file
SheetOfFile(f) ==
    LET nr == IF DOMAIN f = {} THEN 1
              ELSE CHOOSE r \in {rc[1] : rc \in DOMAIN f} :
                       \A rc \in DOMAIN f : rc[1] <= r
        nc == IF DOMAIN f = {} THEN 1
              ELSE CHOOSE c \in {rc[2] : rc \in DOMAIN f} :
                       \A rc \in DOMAIN f : rc[2] <= c
    IN  [max_row |-> nr, max_column |-> nc,
         cells |-> [r \in 1..nr |-> [c \in 1..nc |->
                       IF <<r, c>> \in DOMAIN f THEN f[<<r, c>>] ELSE None]]]

\* line 59, load_workbook(buf_in, keep_vba=True, data_only=True)
load_workbook(file) ==
    [sheets |-> [n \in DOMAIN file.sheets |-> SheetOfFile(file.sheets[n])],
     vba |-> file.vba]

\* the workbook with sheet name replaced or added
WithSheet(book, name, w) ==
    [book EXCEPT !.sheets =
        [n \in DOMAIN book.sheets \cup {name} |->
            IF n = name THEN w ELSE book.sheets[n]]]

Warn(text) == [text |-> text, key |-> <<>>]

\* lines 160-163
DashWarnings(book) ==
    IF get_ws(book, "WarDashboard") = NoneWs
    THEN {Warn("Sheet 'WarDashboard' not found.")} ELSE {}

\* lines 208-214
TerrWarnings(book) ==
    LET w == get_ws(book, "Territories")
    IN  IF w = NoneWs THEN {Warn("Sheet 'Territories' not found.")}
        ELSE IF sheet_to_dataframe_by_key(w, RegionName).err # NoErr
             THEN {sheet_to_dataframe_by_key(w, RegionName).err}
             ELSE {}

\* lines 286-292
ReconWarnings(book) ==
    LET w == get_ws(book, "Recon")
    IN  IF w = NoneWs THEN {Warn("Sheet 'Recon' not found.")}
        ELSE IF sheet_to_dataframe_by_key(w, RegionName).err # NoErr
             THEN {sheet_to_dataframe_by_key(w, RegionName).err}
             ELSE {}

HasColumn(df, name) == \E i \in 1..Len(df.columns) : df.columns[i] = name

\* lines 296-297: df_recon["ReconLevel"] and df_recon["Accuracy"] raise
\* KeyError when the table has no such column
ReconRaises(book) ==
    /\ ReconWarnings(book) = {}
    /\ LET df == sheet_to_dataframe_by_key(get_ws(book, "Recon"), RegionName)
       IN  ~(HasColumn(df, SReconLevel) /\ HasColumn(df, SAccuracy))

\* lines 324-326
MonWarnings(book) ==
    IF get_ws(book, "Monsters") = NoneWs
    THEN {Warn("Sheet 'Monsters' not found.")} ELSE {}

\* line 355: view["Name"] raises KeyError when the table has no such column
MonRaises(book) ==
    /\ MonWarnings(book) = {}
    /\ ~HasColumn(sheet_to_dataframe_first_row(get_ws(book, "Monsters")), SName)

\* lines 374-376
UpgWarnings(book) ==
    IF get_ws(book, "Upgrade Systems") = NoneWs
    THEN {Warn("Sheet 'Upgrade Systems' not found.")} ELSE {}

\* lines 381-389: row r opens a tier block, whose rows r..r+7 are read
OpensBlock(w, r) ==
    LET a == CellValue(w, r, 1)
    IN  /\ a.t = "str"
        /\ \/ StartsWith(Lower(Strip(a.v)), SWeaponTier)
           \/ StartsWith(Lower(Strip(a.v)), SMilitiaTier)

\* lines 379-391: ws.cell(row=rr, column=1) creates the cells it reads, so the
\* sheet's extent reaches the last row of the last block; no value changes
UpgScan(w) ==
    LET ends == {r + 7 : r \in {q \in 1..w.max_row : OpensBlock(w, q)}}
        nr == IF ends = {} THEN w.max_row
              ELSE Max2(w.max_row, CHOOSE e \in ends : \A x \in ends : x <= e)
    IN  [max_row |-> nr, max_column |-> w.max_column,
         cells |-> [r \in 1..nr |-> RowValues(w, r)]]

\* lines 419-429: the names of the Region dropdown
RECURSIVE RegionsFrom(_, _, _)
RegionsFrom(w, r, acc) ==
    IF r > w.max_row THEN acc
    ELSE IF AllNone(RowValues(w, r)) THEN acc
    ELSE IF Truthy(CellValue(w, r, 1))
         THEN RegionsFrom(w, r + 1, acc \cup {PyStr(CellValue(w, r, 1))})
         ELSE RegionsFrom(w, r + 1, acc)

regions(book) ==
    LET w == get_ws(book, "Territories")
        h == find_header_row(w, RegionName)
    IN  IF w # NoneWs /\ h # NoRow THEN RegionsFrom(w, h + 1, {}) ELSE {}

\* lines 432-440: the codes of the Event Type dropdown
event_types(book) ==
    LET w == get_ws(book, "Upgrade Systems")
    IN  IF w = NoneWs THEN {}
        ELSE {Strip(CellValue(w, r, 1).v) :
                r \in {q \in 1..w.max_row :
                         /\ CellValue(w, q, 1).t = "str"
                         /\ IsUpper(Strip(CellValue(w, q, 1).v))
                         /\ HasChar(Strip(CellValue(w, q, 1).v), "_")}}

\* lines 453-454: what a selectbox over the options can return; over [""]
\* with index=None it returns None until the user picks ""
Selectable(options) ==
    IF options = {} THEN {None, Str(<<>>)} ELSE {Str(o) : o \in options}

EventsHeader == <<Str(RegionName), Str(SEventType), Str(SValue), Str(SNotes)>>

\* the four cells of an event written to row r from column c on
RECURSIVE WriteEvent(_, _, _, _)
WriteEvent(w, r, row, c) ==
    IF c > Len(row) THEN w
    ELSE WriteEvent(SetCell(w, r, c, row[c]), r, row, c + 1)

\* lines 443-449: the sheet TerritoryEvents, created with its header when
\* the workbook has none
EnsureEvents(book) ==
    IF get_ws(book, "TerritoryEvents") = NoneWs
    THEN WithSheet(book, "TerritoryEvents", WriteEvent(EmptySheet, 1, EventsHeader, 1))
    ELSE book

\* an append that writes at max_row instead of max_row + 1
AppendEventAtMaxRow(w, row) == WriteEvent(w, w.max_row, row, 1)

\* lines 459-463, 472-476, 481-485: target_row = ws_e.max_row + 1
AppendEvent(w, row) == WriteEvent(w, w.max_row + 1, row, 1)

\* lines 460-463
FormRow(g) == <<g.region, g.etype, Float(g.value), g.notes>>

\* lines 470-476; last_region is never set, so the region is "GLOBAL"
RollRow(g) ==
    LET result == g.roll + g.mod
    IN  << Str(SGlobal),
           Str(SRollPrefix \o Upper(g.die)),
           Num(result),
           Str(<<"R", "o", "l", "l", " ">> \o g.die \o <<" ", "+", " ">>
                   \o Digits(g.mod) \o <<" ", "=", " ">> \o Digits(result)) >>

\* lines 482-485
DayRow(g) == <<Str(SGlobal), Str(SAddDaysNote), Float(0), Str(g.add_day_note)>>

\* lines 458-487: the events the widgets g make the run append, in order
EventsToAppend(g) ==
    (IF g.submitted THEN <<FormRow(g)>> ELSE <<>>)
        \o (IF g.roll_now THEN <<RollRow(g)>> ELSE <<>>)
        \o (IF g.add_day_click /\ g.add_day_note # <<>> THEN <<DayRow(g)>> ELSE <<>>)

RECURSIVE AppendAll(_, _, _)
AppendAll(w, rows, i) ==
    IF i > Len(rows) THEN w
    ELSE AppendAll(AppendEvent(w, rows[i]), rows, i + 1)

\* lines 443-487 on the workbook
tab_events(book, g) ==
    LET b1 == EnsureEvents(book)
    IN  WithSheet(b1, "TerritoryEvents",
                  AppendAll(get_ws(b1, "TerritoryEvents"), EventsToAppend(g), 1))

-----------------------------------------------------------------------------
(* The uploads of the bounded sessions                                     *)

MaxAppEdited == 1

\* the event rows one upload can take before a new upload is needed
MaxAppended == 3

SRaid == <<"R", "A", "I", "D", "_", "S", "T", "A", "R", "T">>
STier == <<"W", "e", "a", "p", "o", "n", " ", "T", "i", "e", "r", " ", "1">>

TerrPlain == Sheet(<< <<Str(RegionName), Str(SX)>>, <<Str(SA), Str(SX)>>,
                      <<Str(SB), None>> >>)
\* the scenario of the specification: header at row 2, a blank row 4
TerrGap == Sheet(<< <<Str(SX), None>>, <<Str(RegionName), Str(SX)>>,
                    <<Str(SA), Str(SX)>>, <<None, None>>, <<Str(SB), Str(SX)>> >>)
TerrNoHeader == Sheet(<< <<Str(SA), Str(SX)>>, <<Str(SB), Str(SX)>> >>)

Sheet3(cells) == [max_row |-> Len(cells), max_column |-> 3, cells |-> cells]
ReconOk == Sheet3(<< <<Str(RegionName), Str(SReconLevel), Str(SAccuracy)>>,
                     <<Str(SA), Num(1), Str(SX)>> >>)
ReconNoHeader == Sheet(<< <<Str(SA), Str(SX)>> >>)
ReconNoLevel == Sheet(<< <<Str(RegionName), Str(SX)>>, <<Str(SA), Str(SX)>> >>)

MonOk == Sheet(<< <<Str(SName), Str(SX)>>, <<Str(SA), Num(1)>> >>)
MonNoName == Sheet(<< <<Str(SX), Str(SY)>>, <<Str(SA), Num(1)>> >>)

UpgOk == [max_row |-> 2, max_column |-> 1,
          cells |-> << <<Str(STier)>>, <<Str(SRaid)>> >>]

DashOk == Sheet(<< <<Str(SA), Num(1)>> >>)

Sheet4(cells) == [max_row |-> Len(cells), max_column |-> 4, cells |-> cells]
EventsHeaderOnly == Sheet4(<<EventsHeader>>)
EventsOne == Sheet4(<<EventsHeader, <<Str(SA), Str(SRaid), Float(1), Str(<<>>)>> >>)

\* the workbook holding the sheets of s that are not None
Book(s, vba) ==
    [sheets |-> [n \in {m \in DOMAIN s : s[m] # NoneWs} |-> s[n]], vba |-> vba]

BaseSheets ==
    [n \in {"WarDashboard", "Territories", "Recon", "Monsters",
            "Upgrade Systems", "TerritoryEvents"} |->
        CASE n = "WarDashboard" -> DashOk
          [] n = "Territories" -> TerrPlain
          [] n = "Recon" -> ReconOk
          [] n = "Monsters" -> MonOk
          [] n = "Upgrade Systems" -> UpgOk
          [] OTHER -> NoneWs]

\* Territories and TerritoryEvents in every combination beside sound other
\* sheets, and each other sheet missing or malformed in turn
Books ==
    { Book([[BaseSheets EXCEPT !["Territories"] = t] EXCEPT !["TerritoryEvents"] = e],
           vba) :
        t \in {TerrPlain, TerrGap, TerrNoHeader, NoneWs},
        e \in {NoneWs, EventsHeaderOnly, EventsOne},
        vba \in {"", "vbaProject.bin"} }
    \cup { Book([BaseSheets EXCEPT !["Recon"] = r], "") :
             r \in {ReconNoHeader, ReconNoLevel, NoneWs} }
    \cup { Book([BaseSheets EXCEPT !["Monsters"] = m], "") : m \in {MonNoName, NoneWs} }
    \cup { Book([BaseSheets EXCEPT !["Upgrade Systems"] = NoneWs], ""),
           Book([BaseSheets EXCEPT !["WarDashboard"] = NoneWs], ""),
           Book([[BaseSheets EXCEPT !["Territories"] = NoneWs]
                     EXCEPT !["Recon"] = NoneWs], ""),
           Book([[BaseSheets EXCEPT !["Territories"] = TerrNoHeader]
                     EXCEPT !["Recon"] = NoneWs], "") }

NoFile == [state |-> "none", sheets |-> <<>>, vba |-> ""]
CorruptFile == [state |-> "corrupt", sheets |-> <<>>, vba |-> ""]
NoBook == [sheets |-> <<>>, vba |-> ""]

Files == {wb_save(b) : b \in Books} \cup {CorruptFile}

\* the widgets the Events tab reads, at their values when nothing is clicked
Idle ==
    [submitted |-> FALSE, region |-> None, etype |-> None, value |-> 0,
     notes |-> Str(<<>>), roll_now |-> FALSE, die |-> <<"d", "2", "0">>,
     mod |-> 0, roll |-> 1, add_day_click |-> FALSE, add_day_note |-> <<>>]

\* line 31 (two of the six dice) with int(die[1:])
Dice == { <<"d", "4">>, <<"d", "2", "0">> }
Sides(die) == IF die = <<"d", "4">> THEN 4 ELSE 20

FormChoices(book) ==
    {[Idle EXCEPT !.submitted = TRUE, !.region = rg, !.etype = et, !.value = v] :
        rg \in Selectable(regions(book)), et \in Selectable(event_types(book)),
        v \in {0, 1}}

RollChoices(g) ==
    {[g EXCEPT !.roll_now = TRUE, !.die = d, !.roll = k] :
        d \in Dice, k \in {1, 4, 20}}

DayChoices(g) ==
    {[g EXCEPT !.add_day_click = TRUE, !.add_day_note = n] : n \in {<<>>, SX}}

\* every combination of the three buttons
WidgetChoices(book) ==
    LET f == {Idle} \cup FormChoices(book)
        fr == f \cup UNION {{c \in RollChoices(g) : c.roll <= Sides(c.die)} : g \in f}
    IN  fr \cup UNION {DayChoices(g) : g \in fr}

\* a run has ended: at the last line, by an exception, or by st.stop()
Rest == {"done", "error", "stopped"}

Init ==
    /\ uploaded = NoFile
    /\ wb = NoBook
    /\ pc = "start"
    /\ edited_flag = FALSE
    /\ out = NoFile
    /\ warnings = {}
    /\ widgets = Idle
    /\ appended = 0
    /\ applied = NoneWs
    /\ SheetIdle
    /\ ColsIdle

\* a run starts with nothing loaded, nothing shown, no button clicked
RunVarsReset ==
    /\ wb' = NoBook
    /\ out' = NoFile
    /\ warnings' = {}
    /\ widgets' = Idle

\* lines 46-48: the user puts a file in the uploader, which reruns the script
UploadFile ==
    /\ pc \in Rest
    /\ \E f \in Files : uploaded' = f
    /\ pc' = "start"
    /\ RunVarsReset
    /\ UNCHANGED edited_flag
    /\ appended' = 0
    /\ applied' = NoneWs
    /\ UNCHANGED <<sheetvars, colvars>>

\* any other interaction reruns the script on the file already uploaded
Rerun ==
    /\ pc \in Rest
    /\ pc' = "start"
    /\ RunVarsReset
    /\ UNCHANGED <<uploaded, edited_flag>>
    /\ UNCHANGED <<sheetvars, colvars, appended, applied>>

\* lines 50-52: a run without an upload stops at once
RunNoUpload ==
    /\ pc = "start"
    /\ uploaded.state = "none"
    /\ pc' = "stopped"
    /\ UNCHANGED <<uploaded, wb, edited_flag, out, warnings, widgets>>
    /\ UNCHANGED <<sheetvars, colvars, appended, applied>>

\* lines 57-62: load_workbook raises, the run stops
RunLoadError ==
    /\ pc = "start"
    /\ uploaded.state = "corrupt"
    /\ pc' = "stopped"
    /\ UNCHANGED <<uploaded, wb, edited_flag, out, warnings, widgets>>
    /\ UNCHANGED <<sheetvars, colvars, appended, applied>>

\* lines 57-66: every run loads the workbook anew from the uploaded bytes
RunLoad ==
    /\ pc = "start"
    /\ uploaded.state = "ok"
    /\ wb' = load_workbook(uploaded)
    /\ pc' = "dash"
    /\ UNCHANGED <<uploaded, edited_flag, out, warnings, widgets>>
    /\ UNCHANGED <<sheetvars, colvars, appended, applied>>

\* lines 159-202: the dashboard reads and draws
TabDash ==
    /\ pc = "dash"
    /\ warnings' = warnings \cup DashWarnings(wb)
    /\ pc' = "terr"
    /\ UNCHANGED <<uploaded, wb, edited_flag, out, widgets>>
    /\ UNCHANGED <<sheetvars, colvars, appended, applied>>

\* lines 207-257: warning, view, or editor without a click on Apply
TabTerr ==
    /\ pc = "terr"
    /\ warnings' = warnings \cup TerrWarnings(wb)
    /\ pc' = "recon"
    /\ UNCHANGED <<uploaded, wb, edited_flag, out, widgets>>
    /\ UNCHANGED <<sheetvars, colvars, appended, applied>>

\* lines 245-280: editing enabled and Apply clicked on the table e
TabTerrApply ==
    /\ pc = "terr"
    /\ TerrWarnings(wb) = {}
    /\ \E n \in 0..MaxAppEdited : \E e \in [1..n -> EditedRecords] :
          LET w == get_ws(wb, "Territories")
              df == sheet_to_dataframe_by_key(w, RegionName)
              w2 == ApplyChanges(w, df.columns, e)
          IN  /\ wb' = WithSheet(wb, "Territories", w2)
              /\ applied' = w2
    /\ edited_flag' = TRUE
    /\ pc' = "recon"
    /\ UNCHANGED <<uploaded, out, warnings, widgets, appended>>
    /\ UNCHANGED <<sheetvars, colvars>>

\* lines 285-318
TabRecon ==
    /\ pc = "recon"
    /\ ~ReconRaises(wb)
    /\ warnings' = warnings \cup ReconWarnings(wb)
    /\ pc' = "mon"
    /\ UNCHANGED <<uploaded, wb, edited_flag, out, widgets>>
    /\ UNCHANGED <<sheetvars, colvars, appended, applied>>

\* lines 296-297: the KeyError ends the run
TabReconRaises ==
    /\ pc = "recon"
    /\ ReconRaises(wb)
    /\ pc' = "error"
    /\ UNCHANGED <<uploaded, wb, edited_flag, out, warnings, widgets>>
    /\ UNCHANGED <<sheetvars, colvars, appended, applied>>

\* lines 323-368
TabMon ==
    /\ pc = "mon"
    /\ ~MonRaises(wb)
    /\ warnings' = warnings \cup MonWarnings(wb)
    /\ pc' = "upg"
    /\ UNCHANGED <<uploaded, wb, edited_flag, out, widgets>>
    /\ UNCHANGED <<sheetvars, colvars, appended, applied>>

\* line 355: the KeyError ends the run
TabMonRaises ==
    /\ pc = "mon"
    /\ MonRaises(wb)
    /\ pc' = "error"
    /\ UNCHANGED <<uploaded, wb, edited_flag, out, warnings, widgets>>
    /\ UNCHANGED <<sheetvars, colvars, appended, applied>>

\* lines 373-411
TabUpg ==
    /\ pc = "upg"
    /\ warnings' = warnings \cup UpgWarnings(wb)
    /\ wb' = IF get_ws(wb, "Upgrade Systems") = NoneWs THEN wb
             ELSE WithSheet(wb, "Upgrade Systems",
                            UpgScan(get_ws(wb, "Upgrade Systems")))
    /\ pc' = "events"
    /\ UNCHANGED <<uploaded, edited_flag, out, widgets>>
    /\ UNCHANGED <<sheetvars, colvars, appended, applied>>

\* lines 416-487: the sidebar's widgets (lines 31-41) are read here first
TabEvents ==
    /\ pc = "events"
    /\ \E g \in WidgetChoices(wb) :
          /\ appended + Len(EventsToAppend(g)) <= MaxAppended
          /\ widgets' = g
          /\ appended' = appended + Len(EventsToAppend(g))
          /\ wb' = tab_events(wb, g)
          /\ edited_flag' = (edited_flag \/ EventsToAppend(g) # <<>>)
    /\ pc' = "save"
    /\ UNCHANGED <<uploaded, out, warnings, applied>>
    /\ UNCHANGED <<sheetvars, colvars>>

\* lines 492-520
TabSave ==
    /\ pc = "save"
    /\ out' = wb_save(wb)
    /\ pc' = "done"
    /\ UNCHANGED <<uploaded, wb, edited_flag, warnings, widgets>>
    /\ UNCHANGED <<sheetvars, colvars, appended, applied>>

Next ==
    \/ UploadFile
    \/ Rerun
    \/ RunNoUpload
    \/ RunLoadError
    \/ RunLoad
    \/ TabDash
    \/ TabTerr
    \/ TabTerrApply
    \/ TabRecon
    \/ TabReconRaises
    \/ TabMon
    \/ TabMonRaises
    \/ TabUpg
    \/ TabEvents
    \/ TabSave

Spec == Init /\ [][Next]_vars

-----------------------------------------------------------------------------
(* Properties of make_unique_columns (SpecCols)                            *)

\* C1: for every header list, the list returned has the length of the input,
\* every element of it is a non-empty string, and its elements are pairwise
\* distinct.
C1_UniqueNonEmptySameLength ==
    cpc # "in" =>
        /\ Len(unique) = Len(cols)
        /\ \A i \in 1..Len(unique) : unique[i] # <<>>
        /\ \A i, j \in 1..Len(unique) : i # j => unique[i] # unique[j]

\* C2: make_unique_columns is idempotent: applied to its own result it
\* returns that result.
C2_Idempotent == cpc = "twice" => again = unique

\* the name a header has after the placeholder step, as C10 words it
C10_Name(i) ==
    IF cols[i].t = "none" \/ Strip(PyStr(cols[i])) = <<>>
    THEN <<"C", "o", "l">> \o Digits(i)
    ELSE Strip(PyStr(cols[i]))

\* the number of positions up to i that carry the name of position i
C10_Occurrence(i) == Cardinality({j \in 1..i : C10_Name(j) = C10_Name(i)})

\* C10: an absent or blank-after-trim header at position i becomes Col{i};
\* then the first occurrence of a name is kept verbatim and its k-th
\* occurrence (k >= 2) is the name followed by " (k-1)".
C10_PlaceholderThenSuffix ==
    cpc # "in" =>
        /\ Len(unique) = Len(cols)
        /\ \A i \in 1..Len(cols) :
              unique[i] =
                  IF C10_Occurrence(i) = 1 THEN C10_Name(i)
                  ELSE C10_Name(i) \o <<" ", "(">>
                           \o Digits(C10_Occurrence(i) - 1) \o <<")">>

\* a blank header took its placeholder and a name met three times got the
\* suffixes (1) and (2)
C10_Witness ==
    /\ cpc = "once"
    /\ cols = <<Str(SA), Str(<<" ">>), Str(SA), Str(SA)>>
    /\ unique = << SA, <<"C", "o", "l", "2">>, SA1, <<"A", " ", "(", "2", ")">> >>

-----------------------------------------------------------------------------
(* Properties of the sheet helpers (SpecSheet)                             *)

\* the rows of w whose column A, trimmed and lower-cased, is the sentinel
SentinelRows(w) ==
    {r \in 1..w.max_row :
        LET v == CellValue(w, r, 1)
        IN  v.t = "str" /\ Lower(Strip(v.v)) = Lower(RegionName)}

SetMin(S) == CHOOSE x \in S : \A y \in S : x <= y

FirstSentinel(w) == IF SentinelRows(w) = {} THEN NoRow ELSE SetMin(SentinelRows(w))

BlankRow(w, r) == \A c \in 1..w.max_column : CellValue(w, r, c) = None

\* the first fully absent row after h, or max_row + 1
FirstBlankAfter(w, h) ==
    LET B == {r \in (h + 1)..w.max_row : BlankRow(w, r)}
    IN  IF B = {} THEN w.max_row + 1 ELSE SetMin(B)

\* C3: with the sentinel header at row h, sheet_to_dataframe_by_key returns
\* exactly rows h+1 .. b-1 in sheet order, b being the first fully absent row
\* after h (or max_row+1): no row at or after b is returned.
C3_ByKeyStopsAtFirstBlank ==
    (op = "sheet_to_dataframe_by_key" /\ FirstSentinel(ws) # NoRow) =>
        LET h == FirstSentinel(ws)
            b == FirstBlankAfter(ws, h)
        IN  /\ ret.res.isdf
            /\ ret.res.err = NoErr
            /\ Len(ret.res.rows) = b - 1 - h
            /\ \A i \in 1..(b - 1 - h) : ret.res.rows[i] = ws.cells[h + i]

\* header at row 1, one record, a blank row, then data that is not returned
C3_Witness ==
    /\ op = "sheet_to_dataframe_by_key"
    /\ ws.max_row = 4
    /\ FirstSentinel(ws) = 1
    /\ FirstBlankAfter(ws, 1) = 3
    /\ ~BlankRow(ws, 4)
    /\ Len(ret.res.rows) = 1

\* the rows from r on that have a cell that is not absent, in sheet order
RECURSIVE NonBlankRowsFrom(_, _)
NonBlankRowsFrom(w, r) ==
    IF r > w.max_row THEN <<>>
    ELSE (IF BlankRow(w, r) THEN <<>> ELSE <<w.cells[r]>>)
             \o NonBlankRowsFrom(w, r + 1)

\* C4: sheet_to_dataframe_first_row returns, in sheet order, every row of
\* 2..max_row that has a cell that is not absent, and omits only the rows whose
\* every cell is absent.
C4_FirstRowSkipsOnlyBlankRows ==
    (op = "sheet_to_dataframe_first_row" /\ ws # NoneWs) =>
        ret.res.rows = NonBlankRowsFrom(ws, 2)

\* C9: find_header_row returns the smallest row of 1..max_row whose column A,
\* trimmed and compared without case, is the sentinel, the absence value when
\* there is none or the sheet is absent, and leaves the sheet as it was.
C9_FirstMatchOrNone ==
    [][op' = "find_header_row" => (ws' = ws /\ ret'.h = FirstSentinel(ws))]_vars

\* the padded lower-case sentinel at row 2 won over a later sentinel row
C9_Witness ==
    /\ op = "find_header_row"
    /\ ret.h = 2
    /\ ws.cells[2][1] # Str(RegionName)
    /\ \E r \in 3..ws.max_row : r \in SentinelRows(ws)

-----------------------------------------------------------------------------
(* Properties of the Territories write-back (SpecTerr)                     *)

\* the rows of the keyed region: header + 1 up to the first fully blank row
KeyedRegion(w) ==
    IF FirstSentinel(w) = NoRow THEN {}
    ELSE (FirstSentinel(w) + 1)..(FirstBlankAfter(w, FirstSentinel(w)) - 1)

\* the stringified RegionName of a record of the edited table
RecordKey(columns, rec) == PyStr(RecordGet(columns, rec, RegionName))

\* the keys of the rows of the keyed region
RegionKeys(w) ==
    {PyStr(CellValue(w, r, 1)) : r \in {q \in KeyedRegion(w) : Truthy(CellValue(w, q, 1))}}

\* C5: in the key-matched write-back a record whose stringified RegionName is
\* the key of no row of the keyed region is dropped: a row changes only if a
\* record carries its key, no row is inserted, and the keyed region has no
\* more rows after the Apply than before it.
C5_UnmatchedRecordsDropped ==
    [][op' = "apply" =>
        LET region == KeyedRegion(ws)
            keys == {RecordKey(ret'.res.columns, edited'[i]) : i \in 1..Len(edited')}
        IN  /\ ws'.max_row = ws.max_row
            /\ ws'.max_column = ws.max_column
            /\ Cardinality(KeyedRegion(ws')) <= Cardinality(region)
            /\ \A r \in 1..ws.max_row :
                  ws'.cells[r] # ws.cells[r] =>
                      /\ r \in region
                      /\ Truthy(CellValue(ws, r, 1))
                      /\ PyStr(CellValue(ws, r, 1)) \in keys
            /\ (keys \cap RegionKeys(ws) = {}) => ws' = ws]_vars

\* a record keyed C, which no row carries, was dropped beside a record keyed
\* A that was written to its row
C5_Witness ==
    /\ op = "apply"
    /\ edited = << <<Str(SC), Str(SY)>>, <<Str(SA), Str(SY)>> >>
    /\ ws.max_row = 3
    /\ ws.cells[1][1] = Str(RegionName)
    /\ ws.cells[2] = <<Str(SA), Str(SY)>>
    /\ ws.cells[3] = <<Str(SB), Str(SX)>>

\* C12: in the key-matched write-back every edited record whose key is
\* present in the keyed region overwrites the sheet row it was extracted from,
\* also when several rows of the region share a RegionName: when the edited
\* table has the extracted rows in place (no row added or removed, record i
\* still carrying the key of the row header + i it came from), every row of
\* the region that has a key holds its record's values in columns 1..k after
\* the Apply.
C12_RecordOverwritesItsOwnRow ==
    [][op' = "apply" =>
        LET h == FirstSentinel(ws)
            df == ret'.res
            InPlace ==
                /\ Len(edited') = Len(df.rows)
                /\ \A i \in 1..Len(edited') :
                      RecordKey(df.columns, edited'[i]) = PyStr(CellValue(ws, h + i, 1))
        IN  InPlace =>
                \A i \in 1..Len(edited') :
                    (/\ Truthy(CellValue(ws, h + i, 1))
                     /\ RecordKey(df.columns, edited'[i]) \in RegionKeys(ws))
                        => \A c \in 1..Len(edited'[i]) :
                              CellValue(ws', h + i, c) = edited'[i][c]]_vars

-----------------------------------------------------------------------------
(* Properties of the script run (Spec)                                     *)

\* C6: a workbook loaded and serialised with no Apply and no event append
\* comes out with every sheet's cell values, and the macro payload, as they
\* were loaded.
C6_RoundTripUnchanged ==
    (pc = "done" /\ ~edited_flag) =>
        /\ out.sheets = uploaded.sheets
        /\ out.vba = uploaded.vba

SheetMissing(book, name) == name \notin DOMAIN book.sheets

HeaderMissing(book, name) ==
    name \in DOMAIN book.sheets /\ FirstSentinel(book.sheets[name]) = NoRow

\* the warning a section shows for its sheet when it is missing
NotFound(name) ==
    CASE name = "WarDashboard" -> "Sheet 'WarDashboard' not found."
      [] name = "Territories" -> "Sheet 'Territories' not found."
      [] name = "Recon" -> "Sheet 'Recon' not found."
      [] name = "Monsters" -> "Sheet 'Monsters' not found."
      [] OTHER -> "Sheet 'Upgrade Systems' not found."

\* what the helpers return for the sheet of that name when it, or its
\* header row, is missing
ErrorValues(book, name) ==
    LET res == sheet_to_dataframe_by_key(get_ws(book, name), RegionName)
    IN  /\ SheetMissing(book, name) =>
              /\ get_ws(book, name) = NoneWs
              /\ ~res.isdf
              /\ res.err.text = "Worksheet not found."
        /\ HeaderMissing(book, name) =>
              /\ ~res.isdf
              /\ res.err.text # ""
              /\ res.err.key = RegionName

\* the run goes on to the tab after, the workbook as it was and the warning
\* shown
GoesOn(after, warning) == pc' = after /\ wb' = wb /\ warning \in warnings'

C8_AppendsBelowEarlierRows ==
    [][(pc = "events" /\ pc' = "save") =>
          LET before == IF SheetMissing(wb, "TerritoryEvents") THEN EventsHeaderOnly
                        ELSE wb.sheets["TerritoryEvents"]
              after == wb'.sheets["TerritoryEvents"]
              new == EventsToAppend(widgets')
          IN  /\ after.max_row = before.max_row + Len(new)
              /\ \A r \in 1..before.max_row : \A c \in 1..after.max_column :
                    CellValue(after, r, c) = CellValue(before, r, c)
              /\ \A k \in 1..Len(new) : \A c \in 1..4 :
                    CellValue(after, before.max_row + k, c) = new[k][c]
              /\ SheetMissing(wb, "TerritoryEvents") => RowValues(after, 1) = EventsHeader
      ]_vars

\* the form, the dice roller and the day note all appended in one run to a
\* sheet that held the header and one event: rows 3, 4 and 5
C8_Witness ==
    /\ pc = "save"
    /\ widgets.submitted /\ widgets.roll_now
    /\ widgets.add_day_click /\ widgets.add_day_note # <<>>
    /\ "TerritoryEvents" \in DOMAIN uploaded.sheets
    /\ uploaded.sheets["TerritoryEvents"] = FileCells(EventsOne)
    /\ wb.sheets["TerritoryEvents"].max_row = 5
    /\ wb.sheets["TerritoryEvents"].cells[4][1] = Str(SGlobal)

\* the rows of TerritoryEvents in a file; a file without the sheet gets the
\* header row when it is loaded into a run
EventRows(file) ==
    IF "TerritoryEvents" \in DOMAIN file.sheets
    THEN SheetOfFile(file.sheets["TerritoryEvents"]).max_row
    ELSE 1

\* C11: edits persist within a session: whenever edited_flag is true, the
\* document offered for download reflects all edits made since the upload;
\* Territories is as the latest Apply left it, and TerritoryEvents holds the
\* uploaded rows and every event row appended since, in whichever run of the
\* session the edit was made.
C11_EditsPersist ==
    (pc = "done" /\ edited_flag) =>
        /\ applied # NoneWs => out.sheets["Territories"] = FileCells(applied)
        /\ EventRows(out) >= EventRows(uploaded) + appended

=============================================================================
